---- MODULE Spec2Model ----
(***************************************************************************)
(* Model of the two scripts of CreditBoost360/CreditBoost:                 *)
(*   daily_learn_notify.py       search, then one desktop notification     *)
(*   duckduckgo_search_scrape.py search, then fetch and extract each page  *)
(* A behaviour is one run of one entry point.  The search provider, the    *)
(* web servers and the notification command are the environment: each of   *)
(* their answers is chosen nondeterministically when the code calls them,  *)
(* and recorded next to the call.  Text is modelled by strings, with the   *)
(* string operations the code performs on it.                              *)
(***************************************************************************)
EXTENDS Integers, Sequences, FiniteSets, TLC

VARIABLES
    script,         \* the entry point this run executes
    pc,             \* position of the run
    query,          \* the query string
    max_results,    \* the limit the search is called with
    urls,           \* the list `urls` built from the search results
    idx,            \* 1-based position of the `for url in urls` loop
    stdout,         \* lines printed, each with the line of its print statement
    providerCalls,  \* calls made to the search provider, with its reply
    fetches,        \* calls of scrape_page: url, the server's reply, result
    notifyCalls,    \* calls of subprocess.run, with the command's outcome
    raised          \* the exception that ended the run, "none" otherwise

vars == <<script, pc, query, max_results, urls, idx, stdout, providerCalls,
          fetches, notifyCalls, raised>>

---------------------------------------------------------------------------
(* Bounds of the model *)

\* longest result list the provider answers with
MaxResults == 3
\* largest limit a direct caller passes to duckduckgo_search
MaxLimit == 4

(* Constants of the program *)

\* text[:2000]
MaxChars == 2000
\* def duckduckgo_search(query, max_results=3)
DefaultMaxResults == 3
\* search(query, max_results=3)
NotifyMaxResults == 3

NOTIFY == "daily_learn_notify"
SCRAPE == "duckduckgo_search_scrape"
CALL   == "duckduckgo_search"

DefaultQuery == "latest tech news"
Queries == {DefaultQuery, "", "rust"}

URLs == {"https://a.example/1", "https://b.example/2"}

Min(a, b) == IF a < b THEN a ELSE b

SeqsUpTo(S, n) == UNION {[1..k -> S] : k \in 0..n}

---------------------------------------------------------------------------
(* Python string helpers *)

RECURSIVE Rep(_, _)
\* s * n
Rep(s, n) ==
    IF n = 0 THEN ""
    ELSE LET h == Rep(s, n \div 2)
         IN  IF n % 2 = 0 THEN h \o h ELSE (h \o h) \o s

RECURSIVE Join(_, _)
\* sep.join(parts)
Join(sep, parts) ==
    IF parts = <<>> THEN ""
    ELSE IF Len(parts) = 1 THEN parts[1]
    ELSE (parts[1] \o sep) \o Join(sep, Tail(parts))

\* repr of a str without quotes or escapes in it
StrRepr(s) == ("'" \o s) \o "'"

\* repr of a list of str
ListRepr(l) == ("[" \o Join(", ", [i \in 1..Len(l) |-> StrRepr(l[i])])) \o "]"

\* text[:n]
Slice(text, n) == SubSeq(text, 1, Min(Len(text), n))

---------------------------------------------------------------------------
(* The environment *)

\* One search result: a dict.  `search` (notifier) answers dicts keyed 'url',
\* DDGS.text (scraper) dicts keyed 'href'; a malformed result lacks the key.
Results(key) ==
    IF key = "url"
    THEN {[url |-> u] : u \in URLs} \cup {[href |-> "https://a.example/1"]}
    ELSE {[href |-> u] : u \in URLs} \cup {[url |-> "https://a.example/1"]}

\* The provider fails, or answers a list of results.  A limit >= 1 bounds the
\* length of the list; what the provider does with another limit is unknown.
ProviderReplies(key, limit) ==
    LET n == IF limit >= 1 THEN Min(limit, MaxResults) ELSE MaxResults
    IN  {[kind |-> "error", results |-> <<>>]}
        \cup {[kind |-> "ok", results |-> rs] : rs \in SeqsUpTo(Results(key), n)}

Page(status, parses, paragraphs) ==
    [kind |-> "response", status |-> status, parses |-> parses,
     paragraphs |-> paragraphs]

NoPage(kind) ==
    [kind |-> kind, status |-> 0, parses |-> FALSE, paragraphs |-> <<>>]

\* What requests.get(url, timeout=5) meets: an exception of the transport, or
\* a response with a status and a body (the texts of its <p> elements when the
\* parser accepts it).
FetchReplies ==
    { NoPage("Timeout"),
      NoPage("ConnectionError"),
      Page(404, TRUE, <<"Not found">>),
      Page(503, TRUE, <<>>),
      Page(300, TRUE, <<"Multiple", "choices">>),
      Page(200, FALSE, <<>>),
      Page(200, TRUE, <<>>),
      Page(200, TRUE, <<"Hello", "", "world">>),
      Page(200, TRUE, <<Rep("a", MaxChars)>>),
      Page(200, TRUE, <<Rep("a", MaxChars - 1), "bc">>),
      Page(200, TRUE, <<Rep("a", MaxChars - 800), Rep("b", MaxChars - 800), "c">>) }

\* notify-send ran and exited 0, ran and exited with another status, or could
\* not be started (FileNotFoundError).
SinkOutcomes == {"exit0", "exit1", "FileNotFoundError"}

---------------------------------------------------------------------------
(* duckduckgo_search_scrape.py *)

\* The collection written to read results[0] first: IndexError on no result
Collect_first(results, key) ==
    IF results = <<>> THEN [raised |-> "IndexError", urls |-> <<>>]
    ELSE IF \E i \in 1..Len(results) : key \notin DOMAIN results[i]
    THEN [raised |-> "KeyError", urls |-> <<>>]
    ELSE [raised |-> "none", urls |-> [i \in 1..Len(results) |-> results[i][key]]]

\* [r[key] for r in results]: KeyError at the first result without the key
Collect(results, key) ==
    IF \E i \in 1..Len(results) : key \notin DOMAIN results[i]
    THEN [raised |-> "KeyError", urls |-> <<>>]
    ELSE [raised |-> "none", urls |-> [i \in 1..Len(results) |-> results[i][key]]]

\* The arguments ddgs.text is called with
TextCall(q, limit) == [query |-> q, max_results |-> limit]

\* duckduckgo_search with a try/except around the search: [] on any error
duckduckgo_search_swallow(q, limit, reply) ==
    LET got == Collect(reply.results, "href")
    IN  [call   |-> TextCall(q, limit),
         raised |-> "none",
         urls   |-> IF reply.kind = "error" THEN <<>> ELSE got.urls]

\* duckduckgo_search(query, max_results), the provider answering `reply`:
\* the call it makes, and the list it returns or the exception it lets through
duckduckgo_search(q, limit, reply) ==
    LET got == Collect(reply.results, "href")
    IN  [call   |-> TextCall(q, limit),
         raised |-> IF reply.kind = "error" THEN "ProviderError" ELSE got.raised,
         urls   |-> IF reply.kind = "error" THEN <<>> ELSE got.urls]

\* raise_for_status that raises for server errors only
raise_for_status_5xx(status) == status >= 500 /\ status < 600

\* res.raise_for_status(): TRUE when it raises HTTPError
raise_for_status(status) == status >= 400 /\ status < 600

\* The exception raised inside the try block of scrape_page, "none" otherwise
TryBlockError(reply) ==
    IF reply.kind # "response" THEN reply.kind
    ELSE IF raise_for_status(reply.status) THEN "HTTPError"
    ELSE IF ~reply.parses THEN "ParserError"
    ELSE "none"

\* The extraction with the paragraphs joined by spaces
ExtractText_spaces(paragraphs) == Slice(Join(" ", paragraphs), MaxChars)

\* "\n".join(p.get_text() for p in paragraphs)[:2000]
ExtractText(paragraphs) == Slice(Join("\n", paragraphs), MaxChars)

\* print(f"Failed to scrape {url}: {e}")
FailureLine(url, e) == (("Failed to scrape " \o url) \o ": ") \o e

\* scrape_page without its try/except: the exception reaches the caller
scrape_page_uncaught(url, reply) ==
    LET e == TryBlockError(reply)
    IN  IF e = "none"
        THEN [ret |-> ExtractText(reply.paragraphs), printed |-> <<>>,
              raised |-> "none"]
        ELSE [ret |-> "", printed |-> <<>>, raised |-> e]

\* scrape_page(url), the server answering `reply`: what it returns, what it
\* prints, and the exception it lets through
scrape_page(url, reply) ==
    LET e == TryBlockError(reply)
    IN  IF e = "none"
        THEN [ret |-> ExtractText(reply.paragraphs), printed |-> <<>>,
              raised |-> "none"]
        ELSE [ret |-> "", printed |-> <<FailureLine(url, e)>>, raised |-> "none"]

Line(n, text) == [at |-> n, text |-> text]

\* query = input("Enter search query: ")
Main_ReadQuery ==
    /\ script = SCRAPE
    /\ pc = "Idle"
    /\ \E q \in Queries : query' = q
    /\ pc' = "Searching"
    /\ UNCHANGED <<script, max_results, urls, idx, stdout, providerCalls,
                   fetches, notifyCalls, raised>>

\* The loop stopping one URL short
LoopPc_short(done, all) == IF done >= Len(all) - 1 THEN "Done" ELSE "Fetching"

\* The position of the loop once `done` of the urls are processed
LoopPc(done, all) == IF done >= Len(all) THEN "Done" ELSE "Fetching"

\* urls = duckduckgo_search(query); print(f"Found URLs: {urls}")
Main_Search ==
    /\ script = SCRAPE
    /\ pc = "Searching"
    /\ \E reply \in ProviderReplies("href", max_results) :
         LET r == duckduckgo_search(query, max_results, reply)
         IN  /\ providerCalls' = Append(providerCalls, [call |-> r.call, reply |-> reply])
             /\ IF r.raised # "none"
                THEN /\ raised' = r.raised
                     /\ pc' = "Aborted"
                     /\ UNCHANGED <<urls, idx, stdout>>
                ELSE /\ urls' = r.urls
                     /\ stdout' = Append(stdout, Line(28, "Found URLs: " \o ListRepr(r.urls)))
                     /\ idx' = 1
                     /\ pc' = LoopPc(0, r.urls)
                     /\ UNCHANGED raised
    /\ UNCHANGED <<script, query, max_results, fetches, notifyCalls>>

\* One iteration of `for url in urls`: header, scrape_page(url), print(content)
Main_Fetch ==
    /\ script = SCRAPE
    /\ pc = "Fetching"
    /\ \E reply \in FetchReplies :
         LET url == urls[idx]
             r == scrape_page(url, reply)
             header == Line(30, ("\n--- Content from " \o url) \o " ---")
             diag == [i \in 1..Len(r.printed) |-> Line(22, r.printed[i])]
         IN  /\ fetches' = Append(fetches, [url |-> url, reply |-> reply,
                                            ret |-> r.ret, printed |-> r.printed,
                                            raised |-> r.raised])
             /\ IF r.raised # "none"
                THEN /\ raised' = r.raised
                     /\ pc' = "Aborted"
                     /\ stdout' = (stdout \o <<header>>) \o diag
                     /\ UNCHANGED idx
                ELSE /\ stdout' = ((stdout \o <<header>>) \o diag) \o <<Line(32, r.ret)>>
                     /\ idx' = idx + 1
                     /\ pc' = LoopPc(idx, urls)
                     /\ UNCHANGED raised
    /\ UNCHANGED <<script, query, max_results, urls, providerCalls, notifyCalls>>

\* A direct call duckduckgo_search(query, max_results) with the caller's limit
Call_duckduckgo_search ==
    /\ script = CALL
    /\ pc = "Searching"
    /\ \E reply \in ProviderReplies("href", max_results) :
         LET r == duckduckgo_search(query, max_results, reply)
         IN  /\ providerCalls' = Append(providerCalls, [call |-> r.call, reply |-> reply])
             /\ raised' = r.raised
             /\ urls' = r.urls
             /\ pc' = IF r.raised # "none" THEN "Aborted" ELSE "Done"
    /\ UNCHANGED <<script, query, max_results, idx, stdout, fetches, notifyCalls>>

---------------------------------------------------------------------------
(* daily_learn_notify.py *)

\* The message reporting the limit asked for instead of the number found
NotifyMessage_limit(q, found) ==
    ((("Search done for '" \o q) \o "', found ") \o ToString(NotifyMaxResults)) \o " results."

\* f"Search done for '{query}', found {len(urls)} results."
NotifyMessage(q, found) ==
    ((("Search done for '" \o q) \o "', found ") \o ToString(Len(found))) \o " results."

\* The command without the title argument
NotifyArgv_untitled(message) == <<"notify-send", message>>

\* ['notify-send', 'TinyLlama', notify_message]
NotifyArgv(message) == <<"notify-send", "TinyLlama", message>>

\* subprocess.run(argv), without check=True: the exception it raises
SubprocessRun(outcome) ==
    IF outcome = "FileNotFoundError" THEN "FileNotFoundError" ELSE "none"

\* Lines 5-10 of search_and_notify: the search and the list of urls
SearchAndNotify_Search ==
    /\ script = NOTIFY
    /\ pc = "Searching"
    /\ \E reply \in ProviderReplies("url", max_results) :
         LET got == Collect(reply.results, "url")
             exc == IF reply.kind = "error" THEN "ProviderError" ELSE got.raised
             running == Line(5, "Running search for: " \o query)
         IN  /\ providerCalls' = Append(providerCalls,
                                        [call |-> TextCall(query, max_results),
                                         reply |-> reply])
             /\ IF exc # "none"
                THEN /\ raised' = exc
                     /\ pc' = "Aborted"
                     /\ stdout' = Append(stdout, running)
                     /\ UNCHANGED urls
                ELSE /\ urls' = got.urls
                     /\ stdout' = stdout \o <<running,
                                    Line(10, "Found URLs: " \o ListRepr(got.urls))>>
                     /\ pc' = "Notifying"
                     /\ UNCHANGED raised
    /\ UNCHANGED <<script, query, max_results, idx, fetches, notifyCalls>>

\* Lines 13-14 of search_and_notify: the message and its delivery
SearchAndNotify_Send ==
    /\ script = NOTIFY
    /\ pc = "Notifying"
    /\ \E outcome \in SinkOutcomes :
         LET exc == SubprocessRun(outcome)
         IN  /\ notifyCalls' = Append(notifyCalls,
                                      [argv |-> NotifyArgv(NotifyMessage(query, urls)),
                                       outcome |-> outcome])
             /\ raised' = exc
             /\ pc' = IF exc # "none" THEN "Aborted" ELSE "Done"
    /\ UNCHANGED <<script, query, max_results, urls, idx, stdout, providerCalls,
                   fetches>>

---------------------------------------------------------------------------
(* The runs *)

Init ==
    /\ script \in {NOTIFY, SCRAPE, CALL}
    /\ pc = IF script = SCRAPE THEN "Idle" ELSE "Searching"
    /\ query \in IF script = SCRAPE THEN {""} ELSE Queries
    /\ max_results \in IF script = SCRAPE THEN {DefaultMaxResults}
                       ELSE IF script = NOTIFY THEN {NotifyMaxResults}
                       ELSE 0..MaxLimit
    /\ urls = <<>>
    /\ idx = 1
    /\ stdout = <<>>
    /\ providerCalls = <<>>
    /\ fetches = <<>>
    /\ notifyCalls = <<>>
    /\ raised = "none"

Next ==
    \/ Main_ReadQuery
    \/ Main_Search
    \/ Main_Fetch
    \/ Call_duckduckgo_search
    \/ SearchAndNotify_Search
    \/ SearchAndNotify_Send

Spec == Init /\ [][Next]_vars

\* Each fetch returns or times out, and notify-send returns: a run that can
\* take one of these steps takes it.
FairSpec == Spec /\ WF_vars(Main_Fetch) /\ WF_vars(SearchAndNotify_Send)

---------------------------------------------------------------------------
(* Vocabulary of the properties *)

\* The texts printed by the print statement at line n
Printed(n) ==
    LET at == SelectSeq(stdout, LAMBDA l : l.at = n)
    IN  [i \in 1..Len(at) |-> at[i].text]

\* The PageContent values the scrape run has output: print(content)
Contents == Printed(32)

\* The key the running script reads the URL of a result from
ExpectedKey == IF script = NOTIFY THEN "url" ELSE "href"

\* The provider failed, or a result of its answer lacks the expected key
ProviderFailed(reply) ==
    \/ reply.kind = "error"
    \/ \E i \in 1..Len(reply.results) : ExpectedKey \notin DOMAIN reply.results[i]

\* The search step of the run was made and the provider answered well
SearchSucceeded ==
    /\ Len(providerCalls) = 1
    /\ ~ProviderFailed(providerCalls[1].reply)

\* The URLs of the provider's answer, in the provider's order
Returned == 
    LET rs == providerCalls[1].reply.results
    IN  [i \in 1..Len(rs) |-> rs[i][ExpectedKey]]

IsPrefix(p, text) == Len(p) <= Len(text) /\ SubSeq(text, 1, Len(p)) = p

---------------------------------------------------------------------------
(* C1 *)

\* C1: in a scrape run whose search succeeded, whatever the outcome of each
\* fetch, the run is never aborted; the URLs are those the search returned, in
\* its order; the k-th call of scrape_page is for the k-th URL and the k-th
\* content printed is its result; and the run is done exactly when every URL
\* has been fetched once.
EveryUrlOnceInOrder ==
    (script = SCRAPE /\ SearchSucceeded) =>
        /\ pc \in {"Fetching", "Done"}
        /\ raised = "none"
        /\ urls = Returned
        /\ Len(fetches) = idx - 1
        /\ Len(fetches) <= Len(urls)
        /\ \A k \in 1..Len(fetches) : fetches[k].url = urls[k]
        /\ Contents = [k \in 1..Len(fetches) |-> fetches[k].ret]
        /\ (pc = "Done") <=> (Len(fetches) = Len(urls))

\* Three URLs, not in sorted order; the fetch of the second times out and the
\* first and the third are fetched and yield text.
EveryUrlOnceInOrderWitness ==
    /\ script = SCRAPE
    /\ pc = "Done"
    /\ urls = <<"https://b.example/2", "https://a.example/1", "https://b.example/2">>
    /\ Len(fetches) = 3
    /\ fetches[2].reply.kind = "Timeout"
    /\ fetches[1].ret # "" /\ Contents[2] = "" /\ fetches[3].ret # ""

---------------------------------------------------------------------------
(* C2 *)

\* The fetch or the parse failed, as the code sees it: the transport raised,
\* the status is a client or server error (4xx, 5xx), or the parser raised
FetchFailed(reply) ==
    \/ reply.kind \in {"Timeout", "ConnectionError"}
    \/ reply.kind = "response" /\ reply.status \in 400..599
    \/ reply.kind = "response" /\ ~reply.parses

\* The fetch or the parse failed, as the claim has it: any status outside 2xx
FetchFailedNon2xx(reply) ==
    \/ reply.kind \in {"Timeout", "ConnectionError"}
    \/ reply.kind = "response" /\ reply.status \notin 200..299
    \/ reply.kind = "response" /\ ~reply.parses

\* The call f of scrape_page returned "", printed one diagnostic line that
\* names its URL, and let no exception through
FailedQuietly(f) ==
    /\ f.ret = ""
    /\ f.raised = "none"
    /\ Len(f.printed) = 1
    /\ IsPrefix(("Failed to scrape " \o f.url) \o ": ", f.printed[1])
    /\ \E i \in 1..Len(stdout) : stdout[i] = Line(22, f.printed[1])

\* C2 (as amended): for every URL whose fetch or parse fails (timeout, network
\* error, 4xx or 5xx status, parse error), scrape_page returns the empty
\* string, prints a diagnostic line that names the URL, and lets no exception
\* reach its caller.
FailureIsEmptyAndLogged ==
    \A k \in 1..Len(fetches) :
        FetchFailed(fetches[k].reply) => FailedQuietly(fetches[k])

\* A 404, a timeout and an unparseable page, each answered by "" and a line
FailureIsEmptyAndLoggedWitness ==
    /\ pc = "Done"
    /\ Len(fetches) = 3
    /\ fetches[1].reply.kind = "response" /\ fetches[1].reply.status = 404
    /\ fetches[2].reply.kind = "Timeout"
    /\ fetches[3].reply.kind = "response" /\ ~fetches[3].reply.parses
    /\ Contents = <<"", "", "">>
    /\ Len(Printed(22)) = 3

\* C2 (as claimed): the same for every status outside 2xx
Non2xxIsEmptyAndLogged ==
    \A k \in 1..Len(fetches) :
        FetchFailedNon2xx(fetches[k].reply) => FailedQuietly(fetches[k])

---------------------------------------------------------------------------
(* C3 *)

RECURSIVE Offset(_, _)
\* Number of characters before paragraph i in the paragraphs joined by "\n"
Offset(ps, i) == IF i = 1 THEN 0 ELSE Offset(ps, i - 1) + Len(ps[i - 1]) + 1

\* Length of the paragraphs joined by "\n"
JoinedLen(ps) == IF ps = <<>> THEN 0 ELSE Offset(ps, Len(ps)) + Len(ps[Len(ps)])

\* text is the first Len(text) characters of the paragraphs joined by "\n":
\* each paragraph, as far as text reaches, stands at its offset, and a newline
\* stands after each paragraph but the last
IsPrefixOfJoined(text, ps) ==
    \A i \in 1..Len(ps) :
        LET off == Offset(ps, i)
            end == off + Len(ps[i])
        IN  /\ off < Len(text) =>
                SubSeq(text, off + 1, Min(end, Len(text)))
                    = SubSeq(ps[i], 1, Min(Len(ps[i]), Len(text) - off))
            /\ (i < Len(ps) /\ end < Len(text)) => SubSeq(text, end + 1, end + 1) = "\n"

Succeeded(reply) ==
    reply.kind = "response" /\ reply.status \in 200..299 /\ reply.parses

\* C3: for every successful fetch, the text scrape_page returns has at most
\* 2000 characters and is the first 2000 characters of the page's paragraph
\* texts joined by newlines in document order (all of it when shorter).
TextIsTruncatedJoin ==
    \A k \in 1..Len(fetches) :
        Succeeded(fetches[k].reply) =>
            LET ps == fetches[k].reply.paragraphs
                text == fetches[k].ret
            IN  /\ Len(text) <= MaxChars
                /\ Len(text) = Min(JoinedLen(ps), MaxChars)
                /\ IsPrefixOfJoined(text, ps)
                /\ fetches[k].printed = <<>>

\* A page cut inside its second paragraph, a page cut right after a newline,
\* and a short page returned whole
TextIsTruncatedJoinWitness ==
    /\ Len(fetches) = 3
    /\ \A k \in 1..3 : Succeeded(fetches[k].reply)
    /\ Len(fetches[1].reply.paragraphs) = 3
    /\ JoinedLen(fetches[1].reply.paragraphs) > MaxChars
    /\ Len(fetches[1].ret) = MaxChars
    /\ JoinedLen(fetches[2].reply.paragraphs) = MaxChars + 2
    /\ SubSeq(fetches[2].ret, MaxChars, MaxChars) = "\n"
    /\ fetches[3].ret = "Hello\n\nworld"

---------------------------------------------------------------------------
(* C4 *)

\* C4: the message handed to the notification command is exactly
\* "Search done for '<query>', found <n> results.", <query> the query of the
\* search and <n> the number of URLs the provider returned; for the query
\* "latest tech news" and three URLs it is
\* "Search done for 'latest tech news', found 3 results."
MessageReportsQueryAndCount ==
    \A k \in 1..Len(notifyCalls) :
        LET body == notifyCalls[k].argv[Len(notifyCalls[k].argv)]
            q == providerCalls[1].call.query
            n == Len(providerCalls[1].reply.results)
        IN  /\ body = Join("", <<"Search done for '", q, "', found ",
                                 ToString(n), " results.">>)
            /\ (q = "latest tech news" /\ n = 3) =>
                   body = "Search done for 'latest tech news', found 3 results."
            /\ (q = "rust" /\ n = 2) => body = "Search done for 'rust', found 2 results."

\* The scenario of the claim: the default query and three results, delivered
MessageReportsQueryAndCountWitness ==
    /\ script = NOTIFY
    /\ pc = "Done"
    /\ query = "latest tech news"
    /\ Len(urls) = 3
    /\ Len(notifyCalls) = 1
    /\ notifyCalls[1].argv[3] = "Search done for 'latest tech news', found 3 results."

---------------------------------------------------------------------------
(* C5 *)

\* The provider answered the search of this run with no result
SearchFoundNothing ==
    /\ Len(providerCalls) = 1
    /\ providerCalls[1].reply.kind = "ok"
    /\ providerCalls[1].reply.results = <<>>

\* C5: when the search returns no result the run is not in error at the search:
\* the scrape run is done without any fetch and without any content printed;
\* the notifier goes on to the delivery, and the message it hands to the
\* command reports 0 results.
ZeroResultsIsValid ==
    /\ (script = SCRAPE /\ SearchFoundNothing) =>
           /\ pc = "Done"
           /\ raised = "none"
           /\ fetches = <<>>
           /\ Contents = <<>> /\ Printed(30) = <<>> /\ Printed(22) = <<>>
    /\ (script = NOTIFY /\ SearchFoundNothing) =>
           /\ raised \in {"none", "FileNotFoundError"}
           /\ pc \in {"Notifying", "Done", "Aborted"}
           /\ pc # "Notifying" =>
                  /\ Len(notifyCalls) = 1
                  /\ notifyCalls[1].argv[Len(notifyCalls[1].argv)]
                         = (("Search done for '" \o query) \o "', found 0 results.")
                  /\ (pc = "Done") <=> (notifyCalls[1].outcome # "FileNotFoundError")

\* A scrape run done on no result
ZeroResultsIsValidWitness ==
    /\ script = SCRAPE
    /\ SearchFoundNothing
    /\ pc = "Done"
    /\ Printed(28) = <<"Found URLs: []">>

\* A notifier run that delivered "found 0 results."
ZeroResultsNotifiedWitness ==
    /\ script = NOTIFY
    /\ SearchFoundNothing
    /\ pc = "Done"
    /\ notifyCalls[1].outcome = "exit0"
    /\ notifyCalls[1].argv[3] = "Search done for 'rust', found 0 results."

---------------------------------------------------------------------------
(* C6 *)

\* C6: the search provider is never called with a limit below 1.
ProviderLimitAtLeastOne ==
    \A k \in 1..Len(providerCalls) : providerCalls[k].call.max_results >= 1

---------------------------------------------------------------------------
(* C7 *)

\* C7: a failure of the search provider (an error, or a result without the
\* expected key) is let through and aborts the run at the search step: no
\* notification command is run, no URL is fetched, no content is printed.
SearchFailureAborts ==
    \A k \in 1..Len(providerCalls) :
        ProviderFailed(providerCalls[k].reply) =>
            /\ pc = "Aborted"
            /\ raised \in {"ProviderError", "KeyError"}
            /\ notifyCalls = <<>>
            /\ fetches = <<>>
            /\ Contents = <<>>
            /\ urls = <<>>

\* A scrape run aborted by a result without 'href' after a well-formed one
SearchFailureAbortsWitness ==
    /\ script = SCRAPE
    /\ pc = "Aborted"
    /\ raised = "KeyError"
    /\ Len(providerCalls[1].reply.results) = 2
    /\ "href" \in DOMAIN providerCalls[1].reply.results[1]

\* A notifier run aborted by the provider's error
SearchFailureNotifierWitness ==
    /\ script = NOTIFY
    /\ pc = "Aborted"
    /\ raised = "ProviderError"
    /\ Printed(5) = <<"Running search for: latest tech news">>

---------------------------------------------------------------------------
(* C8 *)

\* C8: a failed delivery (the command cannot be started, or it exits with a
\* failure status) aborts the notifier run with an exception, and the
\* delivery is attempted at most once.
DeliveryFailureAborts ==
    /\ Len(notifyCalls) <= 1
    /\ \A k \in 1..Len(notifyCalls) :
           notifyCalls[k].outcome # "exit0" => (pc = "Aborted" /\ raised # "none")

---------------------------------------------------------------------------
(* C9 *)

\* The notifier's search step is over and has produced the list of URLs
NotifierSearchCompleted == script = NOTIFY /\ SearchSucceeded

\* The notifier so far: at most one search, for the run's query with limit 3;
\* at most one run of the notification command, made only once the search has
\* completed, with the fixed title and the message as its body; and a run that
\* is over after a completed search has made exactly one.
NotifierOrder ==
    script = NOTIFY =>
        /\ Len(providerCalls) <= 1
        /\ \A k \in 1..Len(providerCalls) :
               providerCalls[k].call = [query |-> query, max_results |-> 3]
        /\ pc # "Searching" => Len(providerCalls) = 1
        /\ Len(notifyCalls) <= 1
        /\ \A k \in 1..Len(notifyCalls) :
               /\ NotifierSearchCompleted
               /\ Printed(10) = <<"Found URLs: " \o ListRepr(Returned)>>
               /\ Len(notifyCalls[k].argv) = 3
               /\ notifyCalls[k].argv[1] = "notify-send"
               /\ notifyCalls[k].argv[2] = "TinyLlama"
               /\ IsPrefix("Search done for '", notifyCalls[k].argv[3])
        /\ (NotifierSearchCompleted /\ pc \in {"Done", "Aborted"}) =>
               Len(notifyCalls) = 1

\* C9: every notifier run searches exactly once, with limit 3; it runs the
\* notification command at most once, only after the search has completed,
\* with the fixed title and the generated body; and every run whose search
\* completes does run it once.
NotifiesOnceAfterSearch ==
    /\ []NotifierOrder
    /\ [][Len(notifyCalls') <= Len(notifyCalls) + 1]_vars
    /\ NotifierSearchCompleted ~> (Len(notifyCalls) = 1)

\* A notifier run that ended after its one notification
NotifiesOnceAfterSearchWitness ==
    /\ script = NOTIFY
    /\ pc = "Done"
    /\ Len(providerCalls) = 1
    /\ Len(urls) = 2
    /\ notifyCalls = <<[argv |-> <<"notify-send", "TinyLlama",
                                   "Search done for '', found 2 results.">>,
                        outcome |-> "exit0"]>>

---------------------------------------------------------------------------
(* C10 *)

\* A step of a scrape run moves along Idle -> Searching -> Fetching[1] -> ...
\* -> Fetching[n] -> Done (or aborts at the search): the search step makes the
\* one call to the provider, a fetch step makes one call of scrape_page, for
\* the URL at the loop's position, and moves the loop by one.
LinearStep ==
    script = SCRAPE =>
        \/ /\ pc = "Idle" /\ pc' = "Searching"
           /\ providerCalls' = <<>> /\ fetches' = <<>>
        \/ /\ pc = "Searching" /\ pc' \in {"Fetching", "Done", "Aborted"}
           /\ providerCalls = <<>> /\ Len(providerCalls') = 1
           /\ fetches' = <<>>
           /\ pc' = "Fetching" => (idx' = 1 /\ Len(urls') >= 1)
           /\ pc' = "Done" => urls' = <<>>
           /\ pc' = "Aborted" => raised' # "none"
        \/ /\ pc = "Fetching" /\ pc' \in {"Fetching", "Done"}
           /\ providerCalls' = providerCalls
           /\ Len(fetches') = Len(fetches) + 1
           /\ fetches'[Len(fetches')].url = urls[idx]
           /\ Len(fetches') = idx
           /\ idx' = idx + 1
           /\ (fetches'[idx].printed = <<>>) <=> (TryBlockError(fetches'[idx].reply) = "none")
           /\ (pc' = "Done") <=> (idx = Len(urls))

\* C10: a scrape run follows Idle -> Searching -> Fetching[1] -> ... ->
\* Fetching[n] -> Done, with one search before any fetch and one fetch attempt
\* per URL, each ending in success or failure; and once the search has
\* succeeded the run reaches Done.
LinearRunTerminates ==
    /\ [][LinearStep]_vars
    /\ [](script = SCRAPE /\ pc = "Done" => Len(fetches) = Len(urls))
    /\ (script = SCRAPE /\ SearchSucceeded) ~> (pc = "Done")

\* A scrape run at Done after three fetches, failures among them
LinearRunTerminatesWitness ==
    /\ script = SCRAPE
    /\ pc = "Done"
    /\ idx = 4
    /\ Len(fetches) = 3
    /\ fetches[1].reply.kind = "ConnectionError"
    /\ fetches[2].reply.kind = "response" /\ fetches[2].reply.status = 503
    /\ fetches[3].reply.kind = "response" /\ fetches[3].reply.status = 200

====
